---- MODULE Spec2Model ----
(***************************************************************************)
(* Model of generate_interview_questions.py: a script that renders one     *)
(* markdown document per day of range(6, 21) from the topics table and the *)
(* companies list and writes it to day-{day}/practice/                     *)
(* interview-questions.md.                                                 *)
(*                                                                         *)
(* A document is a sequence of lines; a line is a tuple of text pieces,    *)
(* the literal pieces of the f-string and the values interpolated into it, *)
(* in order (the empty tuple is an empty line).  Every piece of the        *)
(* template ends with a line break, so concatenating the pieces of the     *)
(* script is concatenating sequences of lines.                             *)
(***************************************************************************)
EXTENDS Integers, Sequences, FiniteSets, TLC

VARIABLES
    topics,     \* the dict topics (day -> title)
    companies,  \* the list companies
    dirs,       \* environment: the directories that exist
    files,      \* environment: path -> [exists, data] (data: lines on disk)
    pc,         \* position of the script
    day,        \* loop variable
    topic,      \* topics[day] of this iteration
    content,    \* the document rendered in this iteration
    handles,    \* the file handles that are open (by path)
    f,          \* the path bound by "with open(...) as f"
    buf,        \* what was written through f and is not flushed yet
    out,        \* the lines printed by this run
    error,      \* the exception that is propagating, or "none"
    run,        \* how many times the script was started
    opened,     \* the paths opened for writing by this run, in order
    snap        \* the files as they were when this run started

vars == <<topics, companies, dirs, files, pc, day, topic, content, handles, f,
          buf, out, error, run, opened, snap>>

----------------------------------------------------------------------------
(* Bounds of the model *)

\* how many times the script is run in succession
MaxRuns == 2
\* how many lines of a document a failing write may leave behind at most
MaxPartial == 1

----------------------------------------------------------------------------
(* The static data of the script *)

TopicsLiteral ==
    6 :> "Forms & Controlled Components" @@
    7 :> "Conditional Rendering Patterns" @@
    8 :> "useEffect Hook - Part 1" @@
    9 :> "useEffect Hook - Part 2" @@
    10 :> "Data Fetching Patterns" @@
    11 :> "useRef Hook" @@
    12 :> "useCallback Hook" @@
    13 :> "useMemo Hook" @@
    14 :> "Context API - Part 1" @@
    15 :> "Context API - Part 2" @@
    16 :> "Custom Hooks - Part 1" @@
    17 :> "Custom Hooks - Part 2" @@
    18 :> "Component Composition" @@
    19 :> "Compound Components Pattern" @@
    20 :> "Render Props Pattern"

CompaniesLiteral ==
    <<"Google", "Meta", "Amazon", "Microsoft", "Apple", "Netflix", "Uber",
      "LinkedIn", "Twitter", "Airbnb">>

RangeStart == 6
RangeStop == 21

\* range(a, b): a, a+1, ..., b-1
Range(a, b) == a .. (b - 1)

LoopDays_short == Range(RangeStart, RangeStop - 1)
LoopDays == Range(RangeStart, RangeStop)

\* the two emoji of the script's texts, named by code point
CheckMark == "U+2705"
Target == "U+1F3AF"

----------------------------------------------------------------------------
(* Formatting *)

Digits == <<"0", "1", "2", "3", "4", "5", "6", "7", "8", "9">>

\* {day} in an f-string: the decimal digits of a non-negative int
RECURSIVE Str(_)
Str(n) == IF n < 10 THEN Digits[n + 1]
          ELSE Str(n \div 10) \o Digits[(n % 10) + 1]

\* sep.join(seq)
RECURSIVE Join(_, _)
Join(sep, seq) ==
    IF seq = <<>> THEN ""
    ELSE IF Len(seq) = 1 THEN seq[1]
    ELSE seq[1] \o sep \o Join(sep, Tail(seq))

PathOf_const(d) == "day-" \o Str(RangeStart) \o "/practice/interview-questions.md"
PathOf(d) == "day-" \o Str(d) \o "/practice/interview-questions.md"

ProgressNotice(d) == <<CheckMark, " Created ", PathOf(d)>>
FinalNotice == <<CheckMark, " Generated all interview question files!">>

----------------------------------------------------------------------------
(* The template *)

HeaderLines(d, t, cs) == <<
    <<"# Day ", Str(d), ": ", t, " - 100+ Interview Questions">>,
    <<>>,
    <<"## Theory Questions from Top MNCs (50+)">>,
    <<>>,
    <<"### Q1-Q50: Core Concepts (", t, ")">>,
    <<>>,
    <<"Day ", Str(d), " covers essential React concepts related to ", t, ".">>,
    <<>>,
    <<"**Key Topics**:">>,
    <<"- Fundamental concepts">>,
    <<"- Advanced patterns">>,
    <<"- Best practices">>,
    <<"- Performance optimization">>,
    <<"- Real-world applications">>,
    <<>>,
    <<"**Companies**: ", Join(", ", cs)>>,
    <<>>,
    <<"---">>,
    <<>>,
    <<"## Coding Challenges from Real Interviews (40+)">>,
    <<>>,
    <<"### Problem 1-40: Practical Coding Problems">>,
    <<>>,
    <<"Real coding challenges asked in interviews at top companies covering ", t, ".">>,
    <<>>,
    <<"**Sample Problems**:">>,
    <<"1. Basic implementation">>,
    <<"2. Intermediate patterns">>,
    <<"3. Advanced optimizations">>,
    <<"4. Real-world scenarios">>,
    <<>>,
    <<"---">>,
    <<>>,
    <<"## Advanced & Edge Cases (10+)">>,
    <<>>,
    <<"### Q1-Q10: Edge Cases and Advanced Scenarios">>,
    <<>>,
    <<"Questions testing deep understanding of ", t, " and edge cases.">>,
    <<>>,
    <<"---">>,
    <<>>,
    <<"## Company-Specific Questions (10+)">>,
    <<>>,
    <<"### Questions from specific companies:">>,
    <<>> >>

CompanySection_named(company, t) == <<
    <<>>,
    <<"### ", company, " Questions">>,
    <<"- ", company, " question 1 about ", t>>,
    <<"- ", company, " question 2 about ", t>>,
    <<"- ", company, " best practices for ", t>> >>
CompanySection(company, t) == <<
    <<>>,
    <<"### ", company, " Questions">>,
    <<"- Question 1 about ", t>>,
    <<"- Question 2 about ", t>>,
    <<"- Best practices for ", t>> >>

\* for company in companies: content += ...
RECURSIVE CompanySections_dropLast(_, _)
CompanySections_dropLast(cs, t) ==
    IF Len(cs) <= 1 THEN <<>>
    ELSE CompanySection(Head(cs), t) \o CompanySections_dropLast(Tail(cs), t)
RECURSIVE CompanySections(_, _)
CompanySections(cs, t) ==
    IF cs = <<>> THEN <<>>
    ELSE CompanySection(Head(cs), t) \o CompanySections(Tail(cs), t)

FooterLines(t) == <<
    <<>>,
    <<"---">>,
    <<>>,
    <<"## Summary">>,
    <<"- **Total Questions**: 100+">>,
    <<"- **Theory**: 50+ questions">>,
    <<"- **Coding**: 40+ challenges">>,
    <<"- **Advanced**: 10+ edge cases">>,
    <<"- **Company-specific**: 10+ questions">>,
    <<>>,
    <<"**", Target, " Master ", t, " with comprehensive coverage!**">>,
    <<>> >>

RenderDoc(d, t, cs) ==
    HeaderLines(d, t, cs) \o CompanySections(cs, t) \o FooterLines(t)

----------------------------------------------------------------------------
(* The file system *)

FileName == "interview-questions.md"
PracticeDir(d) == "day-" \o Str(d) \o "/practice/"
AllDirs == {PracticeDir(d) : d \in Range(RangeStart, RangeStop)}
AllPaths == {dir \o FileName : dir \in AllDirs}
Parent(p) == CHOOSE dir \in AllDirs : dir \o FileName = p

Absent == [exists |-> FALSE, data |-> <<>>]
Stale == [exists |-> TRUE, data |-> << <<"stale">> >>]

\* what open(path, mode) leaves of the data of an existing file
OpenAppend(old) == old
OpenTruncate(old) == <<>>

\* the first n lines of doc
Prefix(doc, n) == SubSeq(doc, 1, IF n < Len(doc) THEN n ELSE Len(doc))

\* topics without the entry for day d
Without(tab, d) == [e \in (DOMAIN tab) \ {d} |-> tab[e]]

----------------------------------------------------------------------------
(* The initial states: the script is about to start in a working directory  *)
(* whose practice directories exist, all but at most one, and whose output  *)
(* files are all absent or all hold older content; the topics table is the  *)
(* one of the script or lacks one entry.                                    *)

Init ==
    /\ topics \in {TopicsLiteral} \cup
                  {Without(TopicsLiteral, d) : d \in DOMAIN TopicsLiteral}
    /\ companies = CompaniesLiteral
    /\ dirs \in {AllDirs} \cup {AllDirs \ {dir} : dir \in AllDirs}
    /\ files \in {[p \in AllPaths |-> Absent], [p \in AllPaths |-> Stale]}
    /\ pc = "lookup"
    /\ day = RangeStart
    /\ topic = ""
    /\ content = <<>>
    /\ handles = {}
    /\ f = ""
    /\ buf = <<>>
    /\ out = <<>>
    /\ error = "none"
    /\ run = 1
    /\ opened = <<>>
    /\ snap = files

----------------------------------------------------------------------------
(* The steps of the script *)

\* line 25, the key is present
LookupOk ==
    /\ pc = "lookup"
    /\ day \in DOMAIN topics
    /\ topic' = topics[day]
    /\ pc' = "render"
    /\ UNCHANGED <<topics, companies, dirs, files, day, content, handles, f,
                   buf, out, error, run, opened, snap>>

\* a variant that skips a day without a topic
LookupMissing_skip ==
    /\ pc = "lookup"
    /\ day \notin DOMAIN topics
    /\ IF day + 1 \in LoopDays
       THEN day' = day + 1 /\ pc' = "lookup"
       ELSE day' = day /\ pc' = "final"
    /\ UNCHANGED <<topics, companies, dirs, files, topic, content, handles, f,
                   buf, out, error, run, opened, snap>>
\* line 25, the key is absent: KeyError, which nothing catches
LookupMissing ==
    /\ pc = "lookup"
    /\ day \notin DOMAIN topics
    /\ error' = "KeyError"
    /\ pc' = "aborted"
    /\ UNCHANGED <<topics, companies, dirs, files, day, topic, content,
                   handles, f, buf, out, run, opened, snap>>

\* lines 26-92
Render ==
    /\ pc = "render"
    /\ content' = RenderDoc(day, topic, companies)
    /\ pc' = "open"
    /\ UNCHANGED <<topics, companies, dirs, files, day, topic, handles, f,
                   buf, out, error, run, opened, snap>>

\* a variant that announces the file before it is written
OpenOk_announce ==
    /\ pc = "open"
    /\ Parent(PathOf(day)) \in dirs
    /\ f' = PathOf(day)
    /\ files' = [files EXCEPT ![PathOf(day)] =
                    [exists |-> TRUE, data |-> OpenTruncate(@.data)]]
    /\ handles' = handles \cup {PathOf(day)}
    /\ buf' = <<>>
    /\ opened' = Append(opened, PathOf(day))
    /\ out' = Append(out, ProgressNotice(day))
    /\ pc' = "write"
    /\ UNCHANGED <<topics, companies, dirs, day, topic, content, error,
                   run, snap>>
\* line 94, open(path, "w") succeeds: the file is created or truncated
OpenOk ==
    /\ pc = "open"
    /\ Parent(PathOf(day)) \in dirs
    /\ f' = PathOf(day)
    /\ files' = [files EXCEPT ![PathOf(day)] =
                    [exists |-> TRUE, data |-> OpenTruncate(@.data)]]
    /\ handles' = handles \cup {PathOf(day)}
    /\ buf' = <<>>
    /\ opened' = Append(opened, PathOf(day))
    /\ pc' = "write"
    /\ UNCHANGED <<topics, companies, dirs, day, topic, content, out, error,
                   run, snap>>

\* a variant that swallows the error and goes on with the next day
OpenFails_swallow ==
    /\ pc = "open"
    /\ Parent(PathOf(day)) \notin dirs
    /\ error' = "FileNotFoundError"
    /\ IF day + 1 \in LoopDays
       THEN day' = day + 1 /\ pc' = "lookup"
       ELSE day' = day /\ pc' = "final"
    /\ UNCHANGED <<topics, companies, dirs, files, topic, content, handles,
                   f, buf, out, run, opened, snap>>
\* line 94, the directory is missing: FileNotFoundError, which nothing catches
OpenFails ==
    /\ pc = "open"
    /\ Parent(PathOf(day)) \notin dirs
    /\ error' = "FileNotFoundError"
    /\ pc' = "aborted"
    /\ UNCHANGED <<topics, companies, dirs, files, day, topic, content,
                   handles, f, buf, out, run, opened, snap>>

\* line 95, f.write(content) succeeds
WriteOk ==
    /\ pc = "write"
    /\ buf' = buf \o content
    /\ pc' = "close"
    /\ UNCHANGED <<topics, companies, dirs, files, day, topic, content,
                   handles, f, out, error, run, opened, snap>>

\* line 95, f.write(content) raises (the text cannot be encoded, the disk is
\* full): the exception leaves the with block
WriteFails ==
    /\ pc = "write"
    /\ \E n \in 0 .. MaxPartial : buf' = buf \o Prefix(content, n)
    /\ error' = "OSError"
    /\ pc' = "close"
    /\ UNCHANGED <<topics, companies, dirs, files, day, topic, content,
                   handles, f, out, run, opened, snap>>

\* the end of the with block without an exception: f is flushed and closed
CloseNormal ==
    /\ pc = "close"
    /\ error = "none"
    /\ files' = [files EXCEPT ![f] = [@ EXCEPT !.data = @ \o buf]]
    /\ handles' = handles \ {f}
    /\ buf' = <<>>
    /\ pc' = "print"
    /\ UNCHANGED <<topics, companies, dirs, day, topic, content, f, out,
                   error, run, opened, snap>>

\* the end of the with block without an exception, the flush fails: f is
\* closed all the same and OSError propagates
CloseFails ==
    /\ pc = "close"
    /\ error = "none"
    /\ \E n \in 0 .. MaxPartial :
          files' = [files EXCEPT ![f] = [@ EXCEPT !.data = @ \o Prefix(buf, n)]]
    /\ handles' = handles \ {f}
    /\ buf' = <<>>
    /\ error' = "OSError"
    /\ pc' = "aborted"
    /\ UNCHANGED <<topics, companies, dirs, day, topic, content, f, out,
                   run, opened, snap>>

\* a variant that leaves f open when the block is left by an exception
CloseOnError_leak ==
    /\ pc = "close"
    /\ error # "none"
    /\ pc' = "aborted"
    /\ UNCHANGED <<topics, companies, dirs, files, day, topic, content,
                   handles, f, buf, out, error, run, opened, snap>>
\* the with block is left by an exception: f is flushed and closed, and the
\* exception propagates
CloseOnError ==
    /\ pc = "close"
    /\ error # "none"
    /\ files' = [files EXCEPT ![f] = [@ EXCEPT !.data = @ \o buf]]
    /\ handles' = handles \ {f}
    /\ buf' = <<>>
    /\ pc' = "aborted"
    /\ UNCHANGED <<topics, companies, dirs, day, topic, content, f, out,
                   error, run, opened, snap>>

\* a variant with the last print inside the loop
PrintCreated_withSummary ==
    /\ pc = "print"
    /\ out' = out \o <<ProgressNotice(day), FinalNotice>>
    /\ IF day + 1 \in LoopDays
       THEN day' = day + 1 /\ pc' = "lookup"
       ELSE day' = day /\ pc' = "final"
    /\ UNCHANGED <<topics, companies, dirs, files, topic, content, handles,
                   f, buf, error, run, opened, snap>>
\* line 96, and the loop takes the next day of the range or ends
PrintCreated ==
    /\ pc = "print"
    /\ out' = Append(out, ProgressNotice(day))
    /\ IF day + 1 \in LoopDays
       THEN day' = day + 1 /\ pc' = "lookup"
       ELSE day' = day /\ pc' = "final"
    /\ UNCHANGED <<topics, companies, dirs, files, topic, content, handles,
                   f, buf, error, run, opened, snap>>

\* line 98
Final ==
    /\ pc = "final"
    /\ out' = Append(out, FinalNotice)
    /\ pc' = "done"
    /\ UNCHANGED <<topics, companies, dirs, files, day, topic, content,
                   handles, f, buf, error, run, opened, snap>>

\* the script is started again in the same working directory after a run
\* that completed
Rerun ==
    /\ pc = "done"
    /\ run < MaxRuns
    /\ run' = run + 1
    /\ snap' = files
    /\ pc' = "lookup"
    /\ day' = RangeStart
    /\ topic' = ""
    /\ content' = <<>>
    /\ f' = ""
    /\ buf' = <<>>
    /\ out' = <<>>
    /\ error' = "none"
    /\ opened' = <<>>
    /\ UNCHANGED <<topics, companies, dirs, files, handles>>

Next ==
    \/ LookupOk
    \/ LookupMissing
    \/ Render
    \/ OpenOk
    \/ OpenFails
    \/ WriteOk
    \/ WriteFails
    \/ CloseNormal
    \/ CloseFails
    \/ CloseOnError
    \/ PrintCreated
    \/ Final
    \/ Rerun

Spec == Init /\ [][Next]_vars

----------------------------------------------------------------------------
(* What the properties below speak of *)

\* the days, their decimal names and their output paths, as the
\* specification of the generator gives them
ClaimDays == 6 .. 20
DayText ==
    6 :> "6" @@ 7 :> "7" @@ 8 :> "8" @@ 9 :> "9" @@ 10 :> "10" @@
    11 :> "11" @@ 12 :> "12" @@ 13 :> "13" @@ 14 :> "14" @@ 15 :> "15" @@
    16 :> "16" @@ 17 :> "17" @@ 18 :> "18" @@ 19 :> "19" @@ 20 :> "20"
ClaimPath(d) == "day-" \o DayText[d] \o "/practice/interview-questions.md"
ClaimHeading(d) ==
    <<"# Day ", DayText[d], ": ", TopicsLiteral[d], " - 100+ Interview Questions">>
ClaimProgress(d) == <<CheckMark, " Created ", ClaimPath(d)>>
ClaimFinal == <<CheckMark, " Generated all interview question files!">>
ClaimCompanies ==
    <<"Google", "Meta", "Amazon", "Microsoft", "Apple", "Netflix", "Uber",
      "LinkedIn", "Twitter", "Airbnb">>

Elems(seq) == {seq[i] : i \in 1 .. Len(seq)}

\* the file of day e holds the whole document of day e
Complete(e) ==
    files[ClaimPath(e)] =
        [exists |-> TRUE,
         data |-> RenderDoc(e, TopicsLiteral[e], CompaniesLiteral)]

\* this run has not touched the file of day e
Untouched(e) ==
    /\ files[ClaimPath(e)] = snap[ClaimPath(e)]
    /\ ClaimPath(e) \notin Elems(opened)

\* a document has been rendered in this iteration
Rendered == pc \in {"open", "write", "close", "print"}

IsCompanyHeading(line) ==
    /\ Len(line) = 3
    /\ line[1] = "### "
    /\ line[3] = " Questions"

\* the companies of the company subsections of doc, in the order of doc
CompanyNames(doc) ==
    LET hs == SelectSeq(doc, IsCompanyHeading)
    IN  [i \in 1 .. Len(hs) |-> hs[i][2]]

HasPiece(line, s) == \E i \in 1 .. Len(line) : line[i] = s

----------------------------------------------------------------------------
\* C1: after a run that completed, every day d of 6..20 has a file at
\* day-{d}/practice/interview-questions.md whose first line is
\* "# Day {d}: {topic(d)} - 100+ Interview Questions", and the run wrote
\* exactly 15 files, one per day.
C1_EveryDayHasItsFile ==
    pc = "done" =>
        /\ \A d \in ClaimDays :
              /\ files[ClaimPath(d)].exists
              /\ Len(files[ClaimPath(d)].data) >= 1
              /\ files[ClaimPath(d)].data[1] = ClaimHeading(d)
              /\ ClaimHeading(d)[4] = topics[d]
        /\ Len(opened) = 15
        /\ \A d \in ClaimDays :
              Cardinality({i \in 1 .. Len(opened) : opened[i] = ClaimPath(d)}) = 1

C1_Witness ==
    /\ pc = "done"
    /\ run = 1
    /\ files[ClaimPath(20)].data[1] = ClaimHeading(20)

\* C2: when the open or the write of day d fails, nothing catches the error:
\* the run stops at day d, no file of a later day is touched, the only
\* notices printed are the progress notices of the days before d (so none
\* for d or later, and no final notice), and the files of 6..d-1 hold their
\* whole documents.
C2_WriteFailureAborts ==
    error \in {"FileNotFoundError", "OSError"} =>
        /\ pc \in {"close", "aborted"}
        /\ \A e \in ClaimDays : e > day => Untouched(e)
        /\ out = [i \in 1 .. (day - 6) |-> ClaimProgress(5 + i)]
        /\ \A e \in 6 .. (day - 1) : Complete(e)

C2_Witness ==
    /\ pc = "aborted"
    /\ error = "FileNotFoundError"
    /\ day = 9
    /\ Complete(8)
    /\ ~files[ClaimPath(9)].exists

\* C3: a day d of 6..20 without an entry in the topics table is never
\* passed: the run fails with KeyError at the lookup of day d, before the
\* file of day d is opened, so that file is left as it was (not even
\* emptied), no later day is processed, and the days before d are written.
C3_MissingTopicAborts ==
    /\ \A e \in ClaimDays \ DOMAIN topics :
          /\ day <= e
          /\ day = e => pc \in {"lookup", "aborted"}
          /\ (day = e /\ pc = "aborted") => error = "KeyError"
          /\ Untouched(e)
    /\ error = "KeyError" =>
          /\ pc = "aborted"
          /\ day \notin DOMAIN topics
          /\ \A e \in ClaimDays : e >= day => Untouched(e)
          /\ \A e \in 6 .. (day - 1) : Complete(e)

C3_Witness ==
    /\ error = "KeyError"
    /\ pc = "aborted"
    /\ day = 8
    /\ ~files[ClaimPath(8)].exists
    /\ Complete(7)

\* C4: when the script is run again after a run that completed, in the same
\* environment, every file is after the second run what it was after the
\* first; and a write replaces what the file held: once the with block is
\* left, the file of the day holds the document and nothing else.
C4_Idempotent ==
    /\ (pc = "done" /\ run >= 2) => files = snap
    /\ pc = "print" => files[ClaimPath(day)].data = content

C4_Witness ==
    /\ pc = "done"
    /\ run = 2
    /\ \A d \in ClaimDays : Complete(d)

\* C5: the document of every day has exactly ten company subsections
\* ("### {company} Questions"), one per company of the list and in the order
\* of the list, whatever the day.
C5_TenCompanySections ==
    /\ Rendered => CompanyNames(content) = ClaimCompanies
    /\ pc = "print" => CompanyNames(files[ClaimPath(day)].data) = ClaimCompanies

C5_Witness ==
    /\ pc = "print"
    /\ day = 20
    /\ Len(CompanyNames(content)) = 10

\* C6: a run that completed printed exactly 16 notices, the progress notices
\* of days 6..20 in order and then the final notice; the final notice is
\* printed only when all 15 days are done, once, and as the last line.
C6_SixteenNotices ==
    /\ pc = "done" =>
          /\ Len(out) = 16
          /\ \A i \in 1 .. 15 : out[i] = ClaimProgress(5 + i)
          /\ out[16] = ClaimFinal
    /\ \A i \in 1 .. Len(out) :
          out[i] = ClaimFinal =>
              /\ pc = "done"
              /\ i = 16
              /\ Len(out) = 16
              /\ \A d \in ClaimDays : ClaimPath(d) \in Elems(opened)

C6_Witness ==
    /\ pc = "done"
    /\ Len(out) = 16
    /\ out[16] = ClaimFinal

\* C7: the handle of a day's file is open only while the with block runs:
\* at most one handle is open at any time, and none is open once the block
\* is left, whether normally or by an exception of open, write or flush.
C7_HandleReleased ==
    /\ Cardinality(handles) <= 1
    /\ pc \notin {"write", "close"} => handles = {}
    /\ pc \in {"write", "close"} => handles = {ClaimPath(day)}

C7_Witness ==
    /\ pc = "aborted"
    /\ error = "OSError"
    /\ ClaimPath(day) \in Elems(opened)
    /\ handles = {}

\* C8 as the specification states it: every company subsection consists of
\* three bullet lines, each of which holds the company name and the topic.
C8_BulletsNameCompany ==
    Rendered =>
        \A i \in 1 .. Len(content) :
            IsCompanyHeading(content[i]) =>
                /\ i + 4 <= Len(content)
                /\ content[i + 4] = <<>>
                /\ \A j \in (i + 1) .. (i + 3) :
                      /\ HasPiece(content[j], content[i][2])
                      /\ HasPiece(content[j], TopicsLiteral[day])

\* C8, amended: every company subsection is the heading
\* "### {company} Questions", which holds the company name, followed by the
\* three bullet lines "- Question 1 about {topic}", "- Question 2 about
\* {topic}" and "- Best practices for {topic}", which hold the topic of the
\* day and not the company name; there is one such subsection per company.
C8_BulletsNameTopic ==
    Rendered =>
        /\ \A i \in 1 .. Len(content) :
              IsCompanyHeading(content[i]) =>
                  /\ content[i][2] \in Elems(ClaimCompanies)
                  /\ i + 4 <= Len(content)
                  /\ SubSeq(content, i + 1, i + 3) =
                        << <<"- Question 1 about ", TopicsLiteral[day]>>,
                           <<"- Question 2 about ", TopicsLiteral[day]>>,
                           <<"- Best practices for ", TopicsLiteral[day]>> >>
                  /\ \A j \in (i + 1) .. (i + 3) :
                        ~HasPiece(content[j], content[i][2])
                  /\ content[i + 4] = <<>>
        /\ \A c \in Elems(ClaimCompanies) :
              \E i \in 1 .. Len(content) :
                  content[i] = <<"### ", c, " Questions">>

C8_Witness ==
    /\ pc = "write"
    /\ day = 13
    /\ \E i \in 1 .. Len(content) :
          /\ content[i] = <<"### ", "Netflix", " Questions">>
          /\ content[i + 1] = <<"- Question 1 about ", "useMemo Hook">>

\* C9: a step changes no file but that of the day being written, and does so
\* only in the open and the close of that day; no step changes the topics
\* table or the companies list; and no path is opened twice in one run.
C9_OneFilePerDay ==
    [][ /\ \A e \in ClaimDays :
              files'[ClaimPath(e)] # files[ClaimPath(e)] =>
                  /\ e = day
                  /\ pc \in {"open", "close"}
        /\ DOMAIN files' = DOMAIN files
        /\ topics' = topics
        /\ companies' = companies
        /\ \A i, j \in 1 .. Len(opened') :
              opened'[i] = opened'[j] => i = j ]_vars

C9_Witness ==
    /\ pc = "print"
    /\ day = 7
    /\ Complete(6)
    /\ Complete(7)
    /\ Untouched(8)

\* the number of progress notices printed by this run
NProgress == Cardinality({i \in 1 .. Len(out) : out[i] # ClaimFinal})

\* the days whose file this run has written completely
Written == {e \in ClaimDays : ClaimPath(e) \in Elems(opened) /\ Complete(e)}

\* C10: the days are processed one after the other in ascending order: the
\* files are opened in the order 6, 7, ...; the days written are always 6..k;
\* the progress notices are those of 6, 7, ... in order and their number is
\* that of the written files or one less; and while day d is looked up,
\* rendered and written, the notices printed are exactly those of 6..d-1.
C10_Sequential ==
    /\ opened = [i \in 1 .. Len(opened) |-> ClaimPath(5 + i)]
    /\ \E k \in 0 .. 15 :
          /\ Written = 6 .. (5 + k)
          /\ NProgress \in {k, k - 1}
    /\ \A i \in 1 .. NProgress : out[i] = ClaimProgress(5 + i)
    /\ pc \notin {"final", "done"} => NProgress = day - 6
    /\ pc \in {"final", "done"} => NProgress = 15
    /\ Len(opened) \in {day - 6, day - 5}

C10_Witness ==
    /\ pc = "print"
    /\ day = 12
    /\ NProgress = 6
    /\ Written = 6 .. 12

====
